---- MODULE Spec2Model ----
(***************************************************************************)
(* Model of flaw_nozzle_finder.py: rotate_to_vertical, find_nozzles,       *)
(* process_labels and the combined index list computed by main.            *)
(*                                                                         *)
(* Python floats are modelled by exact rationals <<n, d>> in lowest terms  *)
(* with d > 0.  The inputs are restricted to integer coordinates whose     *)
(* endpoint displacement has an integer length, so that the rotation by    *)
(* -atan2(dy, dx) has rational cosine and sine.  An angle is identified    *)
(* by its direction [cos, sin].                                            *)
(***************************************************************************)
EXTENDS Integers, Sequences, FiniteSets, TLC

VARIABLES groups, nozzle_count, tolerance, pc, todo, results, label_data, combined

vars == <<groups, nozzle_count, tolerance, pc, todo, results, label_data, combined>>

(***************************************************************************)
(* Bounds of the model.                                                    *)
(***************************************************************************)
MaxNozzles == 4
MaxCoord == 2
MaxPts == 3
MaxLabels == 2

(***************************************************************************)
(* Float arithmetic, held exactly.                                         *)
(***************************************************************************)
Abs(n) == IF n < 0 THEN -n ELSE n

RECURSIVE GCD(_, _)
GCD(a, b) == IF b = 0 THEN a ELSE GCD(b, a % b)

Rat(n, d) ==
    LET g == GCD(Abs(n), Abs(d))
        s == IF d < 0 THEN -1 ELSE 1
    IN  <<(s * n) \div g, (s * d) \div g>>

IntR(i) == <<i, 1>>
Zero == IntR(0)
One == IntR(1)

RAdd(a, b) == Rat(a[1] * b[2] + b[1] * a[2], a[2] * b[2])
RSub(a, b) == Rat(a[1] * b[2] - b[1] * a[2], a[2] * b[2])
RMul(a, b) == Rat(a[1] * b[1], a[2] * b[2])
\* a / b for b /= 0; the caller decides what a zero divisor does
RDiv(a, b) == Rat(a[1] * b[2], a[2] * b[1])
RNeg(a) == <<-a[1], a[2]>>
RAbs(a) == <<Abs(a[1]), a[2]>>
RLess(a, b) == a[1] * b[2] < b[1] * a[2]

\* round(): to the nearest integer, a tie going to the even neighbour
RoundHalfUp(a) ==
    LET fl == a[1] \div a[2]
    IN  IF 2 * (a[1] - fl * a[2]) >= a[2] THEN fl + 1 ELSE fl

Round(a) ==
    LET fl == a[1] \div a[2]
        twice == 2 * (a[1] - fl * a[2])
    IN  IF twice < a[2] THEN fl
        ELSE IF twice > a[2] THEN fl + 1
        ELSE IF fl % 2 = 0 THEN fl ELSE fl + 1

(***************************************************************************)
(* Lists and sorting                                                       *)
(***************************************************************************)
\* a list built by a comprehension, as a sequence value
List(f) == SubSeq(f, 1, Len(f))

\* sorted(): a stable ascending sort; less[i][j] says that s[i] orders before s[j]
StableSort(s, less) ==
    LET n == Len(s)
        \* the place of s[i]: after the smaller elements and the earlier equal ones
        place == List([i \in 1..n |->
                    1 + Cardinality({j \in 1..n :
                            \/ less[j][i]
                            \/ (~less[i][j] /\ j < i)})])
    IN  List([k \in 1..n |-> s[CHOOSE i \in 1..n : place[i] = k]])

Range(s) == {s[i] : i \in 1..Len(s)}

DropAllExtremes(s) == SelectSeq(s, LAMBDA x : x /= s[1] /\ x /= s[Len(s)])

\* s[1:-1]
Interior(s) == SubSeq(s, 2, Len(s) - 1)

\* str < str: lexicographic on code points, a proper prefix first
RECURSIVE StrLess(_, _)
StrLess(a, b) ==
    IF b = <<>> THEN FALSE
    ELSE IF a = <<>> THEN TRUE
    ELSE IF a[1] /= b[1] THEN a[1] < b[1]
    ELSE StrLess(Tail(a), Tail(b))

\* sorted(xs) on floats
SortedFloats(xs) ==
    StableSort(xs, [i \in 1..Len(xs) |-> [j \in 1..Len(xs) |-> RLess(xs[i], xs[j])]])

\* sorted(points, key=lambda p: p[0])
SortedByX(points) ==
    StableSort(points, [i \in 1..Len(points) |->
                            [j \in 1..Len(points) |-> points[i][1] < points[j][1]]])

\* sorted() of strings
SortedStrs(ks) ==
    StableSort(ks, [i \in 1..Len(ks) |-> [j \in 1..Len(ks) |-> StrLess(ks[i], ks[j])]])

\* sorted() of integers
SortedInts(ns) ==
    StableSort(ns, [i \in 1..Len(ns) |-> [j \in 1..Len(ns) |-> ns[i] < ns[j]]])

(***************************************************************************)
(* rotate_to_vertical                                                      *)
(***************************************************************************)
\* the length of (dx, dy), when it is an integer
Hypot(dx, dy) == CHOOSE h \in 0..(Abs(dx) + Abs(dy)) : h * h = dx * dx + dy * dy
HasHypot(dx, dy) == \E h \in 0..(Abs(dx) + Abs(dy)) : h * h = dx * dx + dy * dy

\* math.atan2(dy, dx), as the direction of the angle; atan2(0, 0) = 0
Atan2(dy, dx) ==
    IF dx = 0 /\ dy = 0 THEN [cos |-> One, sin |-> Zero]
    ELSE LET h == Hypot(dx, dy)
         IN  [cos |-> Rat(dx, h), sin |-> Rat(dy, h)]

ZeroAngle == [cos |-> One, sin |-> Zero]

\* math.cos(-angle), math.sin(-angle)
CosNeg(angle) == angle.cos
SinNeg(angle) == RNeg(angle.sin)

\* math.degrees(angle): the same angle, in degrees
Degrees(angle) == [unit |-> "deg", cos |-> angle.cos, sin |-> angle.sin]

RotateToVertical(points) ==
    IF Len(points) < 2 THEN <<>>
    ELSE
    LET pts == SortedByX(points)
        dx == pts[Len(pts)][1] - pts[1][1]
        dy == pts[Len(pts)][2] - pts[1][2]
        angle == Atan2(dy, dx)
        cos_a == CosNeg(angle)
        sin_a == SinNeg(angle)
        rotated == List([i \in 1..Len(pts) |->
            <<RSub(RMul(IntR(pts[i][1]), cos_a), RMul(IntR(pts[i][2]), sin_a)),
              RAdd(RMul(IntR(pts[i][1]), sin_a), RMul(IntR(pts[i][2]), cos_a))>>])
    IN  <<angle, rotated>>

(***************************************************************************)
(* find_nozzles                                                            *)
(***************************************************************************)
NotEnoughDataBelowOne(xs, n) == Len(xs) < 2 \/ n < 1

\* the first guard: len(xs) < 2 or nozzle_count < 2
NotEnoughData(xs, n) == Len(xs) < 2 \/ n < 2

StepOverCount(start, end, n) == RDiv(RSub(end, start), IntR(n))

\* step = (end - start) / (nozzle_count - 1)
Step(start, end, n) == RDiv(RSub(end, start), IntR(n - 1))

PosZeroBased(x, start, step) == RDiv(RSub(x, start), step)

\* pos = (x - start) / step + 1
Pos(x, start, step) == RAdd(RDiv(RSub(x, start), step), One)

InTolInclusive(rounded, pos, tol) ==
    ~RLess(tol, RAbs(RSub(IntR(rounded), pos)))

\* in_tol = abs(rounded - pos) < tolerance
InTol(rounded, pos, tol) == RLess(RAbs(RSub(IntR(rounded), pos)), tol)

FnResult(raised, indices, out_of_range, start, end, step, details) ==
    [raised |-> raised, indices |-> indices, out_of_range |-> out_of_range,
     start |-> start, end |-> end, step |-> step, details |-> details]

FindNozzles(xs, n, tol) ==
    IF NotEnoughData(xs, n) THEN FnResult(FALSE, <<>>, <<>>, Zero, Zero, Zero, <<>>)
    ELSE
    LET sorted_x == SortedFloats(xs)
        start == sorted_x[1]
        end == sorted_x[Len(sorted_x)]
        mid == Interior(sorted_x)
    IN  IF n = 1 THEN FnResult(FALSE, <<>>, <<>>, start, end, Zero, <<>>)
        ELSE
        LET step == Step(start, end, n)
        IN  IF mid /= <<>> /\ step = Zero
            THEN \* (x - start) / step raises ZeroDivisionError
                 FnResult(TRUE, <<>>, <<>>, start, end, step, <<>>)
            ELSE
            LET detail(x) ==
                    LET pos == Pos(x, start, step)
                        rounded == Round(pos)
                    IN  <<x, pos, rounded, InTol(rounded, pos, tol)>>
                details == List([i \in 1..Len(mid) |-> detail(mid[i])])
                accepted == SelectSeq(details, LAMBDA d : d[4])
                rejected == SelectSeq(details, LAMBDA d : ~d[4])
            IN  FnResult(FALSE,
                         List([i \in 1..Len(accepted) |-> accepted[i][3]]),
                         List([i \in 1..Len(rejected) |->
                                    <<rejected[i][1], rejected[i][2]>>]),
                         start, end, step, details)

(***************************************************************************)
(* process_labels: one iteration of its loop                               *)
(***************************************************************************)
Keys(g) == List([i \in 1..Len(g) |-> g[i].label])
Lookup(g, label) == (CHOOSE i \in 1..Len(g) : g[i].label = label)
PointsOf(g, label) == g[Lookup(g, label)].points

InsertionOrder(g) == Keys(g)

\* sorted(groups)
SortedLabels(g) == SortedStrs(Keys(g))

\* angle, rotated = rotate_to_vertical(pts) if len(pts) >= 2 else (0.0, [])
Rotation(pts) == IF Len(pts) >= 2 THEN RotateToVertical(pts) ELSE <<ZeroAngle, <<>>>>

\* xs = [p[0] for p in rotated]
Xs(rotated) == List([i \in 1..Len(rotated) |-> rotated[i][1]])

LabelData(label, pts, angle, fn) ==
    [label |-> label, points |-> pts, nozzle_indices |-> fn.indices,
     out_of_range |-> fn.out_of_range, angle_deg |-> Degrees(angle),
     step |-> fn.step, start |-> fn.start, end |-> fn.end, details |-> fn.details]

(***************************************************************************)
(* main: the combined index list                                           *)
(***************************************************************************)
RECURSIVE Flatten(_)
Flatten(ld) == IF ld = <<>> THEN <<>> ELSE ld[1].nozzle_indices \o Flatten(Tail(ld))

RECURSIVE SeqOfSet(_)
SeqOfSet(S) ==
    IF S = {} THEN <<>>
    ELSE LET x == CHOOSE x \in S : TRUE IN <<x>> \o SeqOfSet(S \ {x})

CombinedNoDedup(ld) == SortedInts(Flatten(ld))

\* sorted({idx for ld in label_data for idx in ld.nozzle_indices})
Combined(ld) == SortedInts(SeqOfSet(Range(Flatten(ld))))

(***************************************************************************)
(* Inputs                                                                  *)
(***************************************************************************)
SeqsUpTo(S, n) == UNION {[1..k -> S] : k \in 0..n}

\* the endpoint displacement has an integer length
ExactTilt(points) ==
    Len(points) < 2 \/
    LET pts == SortedByX(points)
        dx == pts[Len(pts)][1] - pts[1][1]
        dy == pts[Len(pts)][2] - pts[1][2]
    IN  HasHypot(dx, dy)

LinePoints == {<<x, 0>> : x \in 0..MaxCoord}

ScenarioLists ==
    { <<<<0, 0>>, <<50, 0>>, <<100, 0>>>>,
      <<<<0, 0>>, <<62, 0>>, <<100, 0>>>>,
      <<<<0, 0>>, <<63, 0>>, <<100, 0>>>>,
      <<<<0, 0>>, <<4, 3>>, <<8, 6>>>>,
      <<<<0, 0>>, <<2, 4>>, <<8, 6>>>>,
      <<<<0, 1>>, <<0, 3>>, <<0, 2>>>>,
      <<<<0, 0>>, <<3, 0>>, <<1, 0>>, <<2, 0>>>>,
      <<<<1, 1>>, <<1, 1>>, <<1, 1>>>> }

PointLists == SeqsUpTo(LinePoints, MaxPts) \cup ScenarioLists

ShortLists ==
    { <<>>,
      <<<<2, 0>>, <<0, 0>>, <<2, 0>>>>,
      <<<<0, 0>>, <<2, 0>>, <<2, 0>>, <<3, 0>>, <<4, 0>>>>,
      <<<<1, 1>>, <<1, 1>>, <<1, 1>>>> }

\* "A", "AB", "B"
LabelNames == {<<65>>, <<65, 66>>, <<66>>}

Tolerances == {Zero, Rat(1, 4), Rat(1, 2), Rat(3, 4)}

Distinct(s) == \A i, j \in 1..Len(s) : i /= j => s[i] /= s[j]

\* one strip of any shape, or several short strips in any insertion order
GroupInputs ==
    { <<[label |-> <<65>>, points |-> p]>> : p \in {q \in PointLists : ExactTilt(q)} }
    \cup
    UNION { { [i \in 1..Len(ks) |-> [label |-> ks[i], points |-> ps[i]]] :
                ps \in [1..Len(ks) -> ShortLists] } :
            ks \in {s \in SeqsUpTo(LabelNames, MaxLabels) : Distinct(s)} }

Init ==
    /\ groups \in GroupInputs
    /\ nozzle_count \in 1..MaxNozzles
    /\ tolerance \in Tolerances
    /\ pc = "main"
    /\ todo = <<>>
    /\ results = <<>>
    /\ label_data = <<>>
    /\ combined = <<>>

(***************************************************************************)
(* Actions                                                                 *)
(***************************************************************************)
\* main: "if not groups: ... return"
NoData ==
    /\ pc = "main"
    /\ groups = <<>>
    /\ pc' = "exit"
    /\ UNCHANGED <<groups, nozzle_count, tolerance, todo, results, label_data, combined>>

\* main calls process_labels: results = [], the loop iterates sorted(groups)
CallProcessLabels ==
    /\ pc = "main"
    /\ groups /= <<>>
    /\ todo' = SortedLabels(groups)
    /\ results' = <<>>
    /\ pc' = "loop"
    /\ UNCHANGED <<groups, nozzle_count, tolerance, label_data, combined>>

\* one iteration of "for label in sorted(groups)" that appends a LabelData
ProcessLabel ==
    /\ pc = "loop"
    /\ todo /= <<>>
    /\ LET label == Head(todo)
           pts == PointsOf(groups, label)
           rot == Rotation(pts)
           fn == FindNozzles(Xs(rot[2]), nozzle_count, tolerance)
       IN  /\ ~fn.raised
           /\ results' = Append(results, LabelData(label, pts, rot[1], fn))
    /\ todo' = Tail(todo)
    /\ UNCHANGED <<groups, nozzle_count, tolerance, pc, label_data, combined>>

\* an iteration in which find_nozzles raises ZeroDivisionError: nothing catches it
ProcessLabelRaises ==
    /\ pc = "loop"
    /\ todo /= <<>>
    /\ LET pts == PointsOf(groups, Head(todo))
       IN  FindNozzles(Xs(Rotation(pts)[2]), nozzle_count, tolerance).raised
    /\ pc' = "raised"
    /\ UNCHANGED <<groups, nozzle_count, tolerance, todo, results, label_data, combined>>

\* "return results"
ReturnResults ==
    /\ pc = "loop"
    /\ todo = <<>>
    /\ label_data' = results
    /\ pc' = "returned"
    /\ UNCHANGED <<groups, nozzle_count, tolerance, todo, results, combined>>

\* combined = sorted({...})
Combine ==
    /\ pc = "returned"
    /\ combined' = Combined(label_data)
    /\ pc' = "done"
    /\ UNCHANGED <<groups, nozzle_count, tolerance, todo, results, label_data>>

Next ==
    \/ NoData
    \/ CallProcessLabels
    \/ ProcessLabel
    \/ ProcessLabelRaises
    \/ ReturnResults
    \/ Combine

Spec == Init /\ [][Next]_vars

(***************************************************************************)
(* Vocabulary of the properties                                            *)
(***************************************************************************)
Results == {results[i] : i \in 1..Len(results)}
\* the Label Result the last iteration appended: every Label Result is Fresh
\* in the state that follows its iteration
Fresh == IF pc = "loop" /\ results /= <<>> THEN {results[Len(results)]} ELSE {}
Returned == pc \in {"returned", "done"}

\* the coordinate sequence find_nozzles received for a Label Result
Coords(r) == Xs(Rotation(r.points)[2])
MinOf(xs) == CHOOSE m \in Range(xs) : \A x \in Range(xs) : ~RLess(x, m)
MaxOf(xs) == CHOOSE m \in Range(xs) : \A x \in Range(xs) : ~RLess(m, x)
GridStep(xs) == RDiv(RSub(MaxOf(xs), MinOf(xs)), IntR(nozzle_count - 1))
GridPoint(xs, k) == RAdd(MinOf(xs), RMul(IntR(k), GridStep(xs)))
HasGrid(r) ==
    LET xs == Coords(r)
    IN  /\ nozzle_count >= 2
        /\ Len(xs) >= 2
        /\ RLess(MinOf(xs), MaxOf(xs))
Details(r) == Range(r.details)
Deviation(d) == RAbs(RSub(IntR(d[3]), d[2]))
Half == Rat(1, 2)

\* every occurrence of coordinate v is recorded with index idx and accepted
AcceptedAs(r, v, idx) ==
    /\ \E d \in Details(r) : d[1] = v
    /\ \A d \in Details(r) : d[1] = v => d[3] = idx /\ d[4] = TRUE
    /\ idx \in Range(r.nozzle_indices)

Empty(r) ==
    /\ r.nozzle_indices = <<>>
    /\ r.out_of_range = <<>>
    /\ r.details = <<>>

(***************************************************************************)
(* C1                                                                      *)
(***************************************************************************)
OnGrid(r, shift) ==
    LET xs == Coords(r)
    IN  \A k \in 1..(nozzle_count - 2) :
            LET v == GridPoint(xs, k)
            IN  v \in Range(xs) => AcceptedAs(r, v, k + shift)

C2_NoError ==
    /\ pc /= "raised"
    /\ Returned => Len(label_data) = Len(groups)

AcceptedIndices(r) ==
    LET acc == SelectSeq(r.details, LAMBDA d : RLess(Deviation(d), tolerance))
    IN  List([i \in 1..Len(acc) |-> acc[i][3]])
RejectedPoints(r) ==
    LET rej == SelectSeq(r.details, LAMBDA d : ~RLess(Deviation(d), tolerance))
    IN  List([i \in 1..Len(rej) |-> <<rej[i][1], rej[i][2]>>])

\* C4: with a grid, every interior coordinate goes to exactly one list: the
\* accepted indices (flag true) exactly when |rounded - pos| < T, strictly,
\* and the out-of-range list (flag false) otherwise; T = 0 accepts nothing;
\* of 0, x, 100 with N = 3, T = 0.25, x = 62 is accepted and x = 63 is not.
C4_Classification ==
    \A r \in Fresh :
        HasGrid(r) =>
            /\ \A d \in Details(r) : d[4] = RLess(Deviation(d), tolerance)
            /\ r.nozzle_indices = AcceptedIndices(r)
            /\ r.out_of_range = RejectedPoints(r)
            /\ Len(r.nozzle_indices) + Len(r.out_of_range) = Len(Coords(r)) - 2
            /\ tolerance = Zero => r.nozzle_indices = <<>>
            /\ (nozzle_count = 3 /\ tolerance = Rat(1, 4)) =>
                    /\ r.points = <<<<0, 0>>, <<62, 0>>, <<100, 0>>>> =>
                            Len(r.nozzle_indices) = 1 /\ r.out_of_range = <<>>
                    /\ r.points = <<<<0, 0>>, <<63, 0>>, <<100, 0>>>> =>
                            r.nozzle_indices = <<>> /\ Len(r.out_of_range) = 1

\* one strip with an accepted and a rejected interior point
C4_Witness ==
    \E r \in Results :
        /\ HasGrid(r)
        /\ RLess(Zero, tolerance)
        /\ r.nozzle_indices /= <<>>
        /\ r.out_of_range /= <<>>

(***************************************************************************)
(* C5                                                                      *)
(***************************************************************************)
\* C5: the combined list is strictly ascending and its members are exactly
\* the accepted indices of the Label Results.
C5_CombinedSet ==
    pc = "done" =>
        /\ \A i \in 1..(Len(combined) - 1) : combined[i] < combined[i + 1]
        /\ Range(combined) =
                UNION {Range(label_data[i].nozzle_indices) : i \in 1..Len(label_data)}

\* two members, one of them accepted more than once, the labels' lists not
\* in ascending order when concatenated
C5_Witness ==
    /\ pc = "done"
    /\ Len(combined) >= 2
    /\ Len(Flatten(label_data)) > Len(combined)
    /\ \E i \in 1..(Len(Flatten(label_data)) - 1) :
            Flatten(label_data)[i] > Flatten(label_data)[i + 1]

(***************************************************************************)
(* C6                                                                      *)
(***************************************************************************)
\* the mapping g, inserted in descending order of its labels
Descending(g) ==
    CHOOSE h \in [1..Len(g) -> Range(g)] :
        /\ Range(h) = Range(g)
        /\ \A i \in 1..(Len(h) - 1) : StrLess(h[i + 1].label, h[i].label)

\* what process_labels returns for the mapping g when no label raises
ResultsFor(g) ==
    LET labels == SortedLabels(g)
    IN  List([i \in 1..Len(g) |->
            LET pts == PointsOf(g, labels[i])
                rot == Rotation(pts)
            IN  LabelData(labels[i], pts, rot[1],
                          FindNozzles(Xs(rot[2]), nozzle_count, tolerance))])

\* C6: process_labels returns one Label Result per label key, in ascending
\* lexicographic order of the label, so a mapping gives, whatever its
\* insertion order, the Label Result sequence and the combined list that the
\* same mapping inserted in descending label order gives.
C6_OrderIndependent ==
    /\ Returned =>
            /\ Len(label_data) = Len(groups)
            /\ {label_data[i].label : i \in 1..Len(label_data)} = Range(Keys(groups))
            /\ \A i \in 1..(Len(label_data) - 1) :
                    StrLess(label_data[i].label, label_data[i + 1].label)
    /\ pc = "done" =>
            LET other == ResultsFor(Descending(groups))
            IN  other = label_data /\ Combined(other) = combined

\* a mapping inserted in descending label order, with accepted indices
C6_Witness ==
    /\ pc = "done"
    /\ Len(groups) >= 2
    /\ StrLess(groups[2].label, groups[1].label)
    /\ label_data[1].label = groups[2].label
    /\ combined /= <<>>

(***************************************************************************)
(* C7                                                                      *)
(***************************************************************************)
Degenerate(r) == Len(r.points) < 2 \/ nozzle_count < 2

\* C7: a label with 0 or 1 points, or any label when N < 2, has empty
\* accepted, out-of-range and detail lists and step = start = end = 0 (and
\* angle 0 for the 0/1-point label), and adds nothing to the combined list.
C7_DegenerateEmpty ==
    /\ \A r \in Fresh :
            Degenerate(r) =>
                /\ Empty(r)
                /\ r.step = Zero /\ r.start = Zero /\ r.end = Zero
                /\ Len(r.points) < 2 => r.angle_deg = Degrees(ZeroAngle)
    /\ pc = "done" =>
            Range(combined) \subseteq
                UNION {Range(label_data[i].nozzle_indices) :
                        i \in {j \in 1..Len(label_data) : ~Degenerate(label_data[j])}}

\* N = 1 with an empty label and a label of three or more points away from 0
C7_Witness ==
    /\ pc = "done"
    /\ nozzle_count = 1
    /\ \E r \in Results : Len(r.points) = 0
    /\ \E r \in Results : Len(r.points) >= 3 /\ MaxOf(Coords(r)) /= Zero

(***************************************************************************)
(* C8                                                                      *)
(***************************************************************************)
\* C8: with N = 1 and at least 2 coordinates, find_nozzles returns start =
\* the minimum and end = the maximum coordinate, with empty lists.
C8_BoundsReturned ==
    \A r \in Fresh :
        (nozzle_count = 1 /\ Len(Coords(r)) >= 2) =>
            /\ r.start = MinOf(Coords(r))
            /\ r.end = MaxOf(Coords(r))
            /\ Empty(r)

(***************************************************************************)
(* C9                                                                      *)
(***************************************************************************)
IsHalfStep(d) == d[2][2] = 2

\* C9: an interior coordinate with pos = m + 0.5 is rounded to the even one
\* of m and m + 1, has deviation exactly 0.5, is accepted exactly when
\* T > 0.5, and for T < 0.5 is reported out-of-range.
C9_HalfStep ==
    \A r \in Fresh : \A d \in Details(r) :
        IsHalfStep(d) =>
            /\ d[3] % 2 = 0
            /\ d[3] \in {(d[2][1] - 1) \div 2, (d[2][1] + 1) \div 2}
            /\ Deviation(d) = Half
            /\ d[4] = RLess(Half, tolerance)
            /\ RLess(tolerance, Half) =>
                    /\ d[4] = FALSE
                    /\ <<d[1], d[2]>> \in Range(r.out_of_range)
                    /\ Len(r.nozzle_indices) < Len(r.details)

\* pos = 2.5 rounded down to 2 and accepted under T = 0.75
C9_Witness ==
    \E r \in Results : \E d \in Details(r) :
        /\ d[2] = Rat(5, 2)
        /\ d[3] = 2
        /\ d[4] = TRUE
        /\ tolerance = Rat(3, 4)

(***************************************************************************)
(* C10                                                                     *)
(***************************************************************************)
DetailCount(r) == IF Len(r.points) >= 2 THEN Len(r.points) - 2 ELSE 0

\* C10 as stated: for every N >= 1, the detail list has (points - 2) entries
\* for a label of at least 2 points and none otherwise.
C10_Original ==
    \A r \in Fresh : Len(r.details) = DetailCount(r)

\* C10 amended: for every N >= 2 the detail list has one entry per interior
\* point, (points - 2) entries for a label of at least 2 points and none
\* otherwise, the entries being the ascending coordinates without the first
\* and the last; for N < 2 the detail list is empty.
C10_DetailPerInterior ==
    \A r \in Fresh :
        /\ nozzle_count >= 2 =>
                /\ Len(r.details) = DetailCount(r)
                /\ Len(r.points) >= 2 =>
                        List([i \in 1..Len(r.details) |-> r.details[i][1]]) =
                            SubSeq(SortedFloats(Coords(r)), 2, Len(r.points) - 1)
        /\ nozzle_count < 2 => r.details = <<>>

\* an interior coordinate that shares the extreme value is still recorded
C10_Witness ==
    \E r \in Results :
        /\ HasGrid(r)
        /\ Len(r.points) >= 3
        /\ Len(r.details) = Len(r.points) - 2
        /\ \E d \in Details(r) : d[1] = MaxOf(Coords(r)) \/ d[1] = MinOf(Coords(r))
====
